---------------------------- MODULE Spec2Model ----------------------------
(***************************************************************************)
(* A model of src/app.py: the invoice extractor.                           *)
(*                                                                         *)
(*   SpecPdf  create_pdf, the text-flow pager (lines 83-137), one action   *)
(*            per step of its two nested loops; SpecPdfAny adds pages      *)
(*            narrower than one glyph.                                     *)
(*   Spec     main's per-file loop (lines 162-212) with                    *)
(*            extract_text_from_pdf (13-47) and extract_invoice_data       *)
(*            (49-81) inlined at their call sites.                         *)
(*                                                                         *)
(* A Python str is a sequence of one-character strings.  Lengths are in    *)
(* hundredths of a point, so that the Helvetica glyph widths at size 10    *)
(* (AFM units / 100 points) are integers: inch = 72 pt = 7200.             *)
(***************************************************************************)
EXTENDS Integers, Sequences, FiniteSets, TLC

VARIABLES
    \* ---- create_pdf ----
    geom,       \* page geometry: [pw, ph, margin, lh]
    text,       \* the argument of create_pdf
    lines,      \* the lines of text.split('\n') the for loop has not taken yet
    line,       \* the loop variable `line` (what is left of the current line)
    y,          \* the vertical cursor
    page,       \* number of c.showPage() calls so far = index of the current page
    draws,      \* the c.drawString calls so far: [page, x, y, text]
    pc,         \* position in create_pdf
    \* ---- main ----
    uploaded_files,      \* the uploaded files, each with what its collaborators will do
    idx,                 \* number of files the for loop has finished
    mpc,                 \* position in main
    disk,                \* temporary files that exist on disk
    pdf_text,            \* main's `text`, the return value of extract_text_from_pdf
    invoice_data,        \* main's `invoice_data`, an Option: [some, val]
    extracted_invoices,  \* main's list
    errors,              \* the st.error calls so far
    combined_text,       \* main's combined_text
    outcome              \* what the run reported at its end

pdfVars == <<geom, text, lines, line, y, page, draws, pc>>
mainVars == <<uploaded_files, idx, mpc, disk, pdf_text, invoice_data,
              extracted_invoices, errors, combined_text, outcome>>
vars == <<geom, text, lines, line, y, page, draws, pc,
          uploaded_files, idx, mpc, disk, pdf_text, invoice_data,
          extracted_invoices, errors, combined_text, outcome>>

---------------------------------------------------------------------------
(* Python's str operations, computed as Python computes them.              *)

NL == "\n"

Min(a, b) == IF a < b THEN a ELSE b

\* str.isspace() of one character
IsSpace(c) == c \in {" ", NL, "\t"}

\* s[a:] and s[:b] for 0-based a, b >= 0 (Python clips them to len(s))
SliceFrom(s, a) == IF a >= Len(s) THEN <<>> ELSE SubSeq(s, a + 1, Len(s))
SliceTo(s, b) == SubSeq(s, 1, Min(b, Len(s)))

RECURSIVE LStrip(_)
\* str.lstrip()
LStrip(s) == IF s # <<>> /\ IsSpace(Head(s)) THEN LStrip(Tail(s)) ELSE s

RECURSIVE RStrip(_)
RStrip(s) == IF s # <<>> /\ IsSpace(s[Len(s)]) THEN RStrip(SubSeq(s, 1, Len(s) - 1)) ELSE s

\* str.strip()
Strip(s) == LStrip(RStrip(s))

\* the 0-based indices of the newlines of s, and the k-th of them (k >= 1);
\* Boundary(s, 0) is -1 and Boundary(s, n + 1) is len(s) for n newlines
NewlineIndices(s) == {i \in 0..(Len(s) - 1) : s[i + 1] = NL}
Boundary(s, k) ==
    IF k = 0 THEN -1
    ELSE IF k > Cardinality(NewlineIndices(s)) THEN Len(s)
    ELSE CHOOSE p \in NewlineIndices(s) :
            Cardinality({q \in NewlineIndices(s) : q <= p}) = k

\* str.split('\n'): the pieces between the newlines; "" gives [""], "a\n"
\* gives ["a", ""]
Split(s) ==
    [k \in 1..(Cardinality(NewlineIndices(s)) + 1) |->
        SubSeq(s, Boundary(s, k - 1) + 2, Boundary(s, k))]

RECURSIVE Join(_, _)
\* sep.join(parts)
Join(sep, parts) ==
    IF parts = <<>> THEN <<>>
    ELSE IF Len(parts) = 1 THEN parts[1]
    ELSE parts[1] \o sep \o Join(sep, Tail(parts))

RECURSIVE Rep(_, _)
\* s * n
Rep(s, n) == IF n <= 0 THEN <<>> ELSE s \o Rep(s, n - 1)

\* every string over alphabet A of length at most n
StringsUpTo(A, n) == UNION {[1..k -> A] : k \in 0..n}

---------------------------------------------------------------------------
(* create_pdf                                                              *)

\* reportlab.lib.units.inch, reportlab.lib.pagesizes.letter, line_height
inch == 7200
letter_width == 61200
letter_height == 79200
line_height == 1400

\* Helvetica's AFM advance widths (1/1000 em): at size 10 a glyph is
\* AFM/100 points wide, which is AFM units of this model.
GlyphWidth(c) ==
    CASE c = " " -> 278
      [] c = "x" -> 500
      [] c = "W" -> 944
      [] c = "=" -> 584
      [] OTHER   -> 556

RECURSIVE stringWidth(_)
\* c.stringWidth(s, "Helvetica", 10): the sum of the glyph widths (summed by
\* halves, to keep the evaluation shallow)
stringWidth(s) ==
    IF s = <<>> THEN 0
    ELSE IF Len(s) = 1 THEN GlyphWidth(s[1])
    ELSE LET h == Len(s) \div 2
         IN  stringWidth(SubSeq(s, 1, h)) + stringWidth(SubSeq(s, h + 1, Len(s)))

Geometry(pw, ph, m, lh) == [pw |-> pw, ph |-> ph, margin |-> m, lh |-> lh]

\* the geometry create_pdf sets up (lines 86-93)
LetterGeometry == Geometry(letter_width, letter_height, inch, line_height)

\* available_width = letter[0] - 2 * margin (line 110)
available_width == geom.pw - 2 * geom.margin

\* y = page_height - margin (lines 90, 103, 130)
TopOfPage == geom.ph - geom.margin

RECURSIVE WalkBack(_, _)
\* while break_point > 0 and not line[break_point].isspace(): break_point -= 1
WalkBack(s, bp) ==
    IF bp > 0 /\ ~IsSpace(s[bp + 1]) THEN WalkBack(s, bp - 1) ELSE bp

\* break_point = int(len(line) * (available_width / line_width)), in exact
\* arithmetic (line 117); only used when line_width > available_width > 0
Interpolated(s) == (Len(s) * available_width) \div stringWidth(s)

\* the fixed character budget of line 122
CharBudget == available_width \div stringWidth(<<"x">>)

\* lines 117-119 alone: the walk back without the character budget
BreakPoint_NoFallback(s) == WalkBack(s, Interpolated(s))

\* lines 117-122
BreakPoint(s) ==
    LET bp == WalkBack(s, Interpolated(s))
    IN  IF bp = 0 THEN CharBudget ELSE bp

Draw(s) == [page |-> page, x |-> geom.margin, y |-> y, text |-> s]

\* the lines of the text, and the one the for loop is at
AllLines == Split(text)
CurIndex == Len(AllLines) - Len(lines)
CurLine == AllLines[CurIndex]

\* a bound on the number of pages (the wrap loop need not terminate)
MaxPage == 4

\* the page test of line 101 with <= in place of <
NextLine_AtMargin ==
    /\ pc = "for"
    /\ lines # <<>>
    /\ line' = Head(lines)
    /\ lines' = Tail(lines)
    /\ IF y <= geom.margin
       THEN /\ page < MaxPage
            /\ page' = page + 1
            /\ y' = TopOfPage
       ELSE UNCHANGED <<page, y>>
    /\ pc' = "while"
    /\ UNCHANGED <<geom, text, draws>>
    /\ UNCHANGED mainVars

\* for line in lines: if y < margin: showPage ... (lines 99-104)
NextLine ==
    /\ pc = "for"
    /\ lines # <<>>
    /\ line' = Head(lines)
    /\ lines' = Tail(lines)
    /\ IF y < geom.margin
       THEN /\ page < MaxPage
            /\ page' = page + 1
            /\ y' = TopOfPage
       ELSE UNCHANGED <<page, y>>
    /\ pc' = "while"
    /\ UNCHANGED <<geom, text, draws>>
    /\ UNCHANGED mainVars

\* one iteration of `while len(line) > 0` whose line fits (lines 112-114)
DrawWhole ==
    /\ pc = "while"
    /\ Len(line) > 0
    /\ stringWidth(line) <= available_width
    /\ draws' = Append(draws, Draw(line))
    /\ line' = <<>>
    /\ UNCHANGED <<geom, text, lines, y, page, pc>>
    /\ UNCHANGED mainVars

\* one iteration of `while len(line) > 0` whose line does not fit (115-131)
WrapBreak ==
    /\ pc = "while"
    /\ Len(line) > 0
    /\ stringWidth(line) > available_width
    /\ LET break_point == BreakPoint(line)
       IN  /\ draws' = Append(draws, Draw(SliceTo(line, break_point)))
           /\ line' = LStrip(SliceFrom(line, break_point))
    /\ IF y - geom.lh < geom.margin
       THEN /\ page < MaxPage
            /\ page' = page + 1
            /\ y' = TopOfPage
       ELSE /\ y' = y - geom.lh
            /\ page' = page
    /\ UNCHANGED <<geom, text, lines, pc>>
    /\ UNCHANGED mainVars

\* line 133 run only for a line that had something to draw
EndLine_SkipBlank ==
    /\ pc = "while"
    /\ Len(line) = 0
    /\ y' = IF CurLine = <<>> THEN y ELSE y - geom.lh
    /\ pc' = "for"
    /\ UNCHANGED <<geom, text, lines, line, page, draws>>
    /\ UNCHANGED mainVars

\* the while loop ends: y -= line_height (line 133)
EndLine ==
    /\ pc = "while"
    /\ Len(line) = 0
    /\ y' = y - geom.lh
    /\ pc' = "for"
    /\ UNCHANGED <<geom, text, lines, line, page, draws>>
    /\ UNCHANGED mainVars

\* the for loop ends: c.save() (lines 135-137)
Save ==
    /\ pc = "for"
    /\ lines = <<>>
    /\ pc' = "saved"
    /\ UNCHANGED <<geom, text, lines, line, y, page, draws>>
    /\ UNCHANGED mainVars

---------------------------------------------------------------------------
(* The texts and geometries create_pdf is run on.                          *)

MaxTextLen == 4

FlowAlphabet == {"x", "W", " ", NL}

\* small pages of two and of three rows, a few glyphs wide
FlowGeometries ==
    {Geometry(w + 2 * 1400, h, 1400, line_height) :
        w \in {1000, 1500, 2000}, h \in {4200, 5600}}

\* usable widths below the width of "x", and between those of "x" and "W"
NarrowGeometries ==
    {Geometry(w + 2 * 1400, 4200, 1400, line_height) : w \in {400, 600}}

\* page height exactly margin + 3 * lineHeight, every margin below half of it
OverflowGeometries ==
    {Geometry(2000 + 2 * m, m + 3 * line_height, m, line_height) :
        m \in {0, 700, 1400, 2100, 2800, 3500}}

ShortLines == {<<"x">>, <<"W">>, <<"x", " ", "W">>}

FourShortLines == {Join(<<NL>>, ls) : ls \in [1..4 -> ShortLines]}

\* a word wider than the page, wide words followed by narrow ones, the same
\* behind a leading blank, and more lines than a page holds
LetterTexts ==
    { Rep(<<"W">>, 60),
      Rep(<<"W", "W", "W", "W", "W", " ">>, 12) \o Rep(<<"x", "x", "x", "x", " ">>, 40),
      <<" ">> \o Rep(<<"W">>, 60),
      Join(<<NL>>, [i \in 1..50 |-> <<"x">>]) }

PdfIdle ==
    /\ geom = LetterGeometry /\ text = <<>> /\ lines = <<>> /\ line = <<>>
    /\ y = 0 /\ page = 0 /\ draws = <<>> /\ pc = "idle"

\* the state of create_pdf when its for loop starts (lines 85-98)
PdfStart(g, t) ==
    /\ geom = g
    /\ text = t
    /\ lines = Split(t)
    /\ line = <<>>
    /\ y = g.ph - g.margin
    /\ page = 0
    /\ draws = <<>>
    /\ pc = "for"

MainIdle ==
    /\ uploaded_files = <<>> /\ idx = 0 /\ mpc = "idle" /\ disk = {}
    /\ pdf_text = <<>> /\ invoice_data = [some |-> FALSE, val |-> <<>>]
    /\ extracted_invoices = <<>> /\ errors = <<>> /\ combined_text = <<>>
    /\ outcome = "none"

InitPdf ==
    /\ MainIdle
    /\ \/ \E g \in FlowGeometries, t \in StringsUpTo(FlowAlphabet, MaxTextLen) : PdfStart(g, t)
       \/ \E g \in OverflowGeometries, t \in FourShortLines : PdfStart(g, t)
       \/ \E t \in LetterTexts : PdfStart(LetterGeometry, t)

NextPdf ==
    \/ NextLine
    \/ DrawWhole
    \/ WrapBreak
    \/ EndLine
    \/ Save

SpecPdf == InitPdf /\ [][NextPdf]_vars

\* the same on pages too narrow for one glyph as well
InitPdfAny ==
    \/ InitPdf
    \/ /\ MainIdle
       /\ \E g \in NarrowGeometries, t \in StringsUpTo(FlowAlphabet, MaxTextLen) : PdfStart(g, t)

SpecPdfAny == InitPdfAny /\ [][NextPdf]_vars

---------------------------------------------------------------------------
(* extract_text_from_pdf, extract_invoice_data and main                    *)

\* Option<string>: Python's None, or a str
None == [some |-> FALSE, val |-> <<>>]
Some(v) == [some |-> TRUE, val |-> v]

\* Python's truth value of `x` for x None or a str
Truthy(o) == o.some /\ o.val # <<>>

\* the base class of each class of unstructured.documents.elements that the
\* parser returns (line 4 imports them): Title, ListItem and Table all derive
\* from Text; CheckBox derives from Element only
BaseClass(cls) ==
    CASE cls \in {"Title", "ListItem", "Table"} -> "Text"
      [] OTHER -> "Element"

RECURSIVE IsInstance(_, _)
\* isinstance(element, classes)
IsInstance(cls, classes) ==
    \/ cls \in classes
    \/ cls # "Element" /\ IsInstance(BaseClass(cls), classes)

\* the marker of line 39, which the source holds as these three code points
BulletMarker == <<"U+00E2", "U+20AC", "U+00A2">>

\* a parsed element: its class, str(element), and the rows the Table branch reads
Element(cls, txt, rows) == [cls |-> cls, text |-> txt, dimensions |-> rows]

\* what one iteration of the loop of lines 31-39 appends to text_elements
Appended(e) ==
    IF IsInstance(e.cls, {"Text", "Title"}) THEN <<e.text>>
    ELSE IF IsInstance(e.cls, {"Table"})
         THEN <<Join(<<NL>>, [r \in 1..Len(e.dimensions) |->
                                Join(<<" ", "|", " ">>, e.dimensions[r])])>>
    ELSE IF IsInstance(e.cls, {"ListItem"}) THEN <<BulletMarker \o <<" ">> \o e.text>>
    ELSE <<>>

RECURSIVE TextElements(_)
TextElements(elements) ==
    IF elements = <<>> THEN <<>>
    ELSE Appended(Head(elements)) \o TextElements(Tail(elements))

\* lines 30-41: "\n".join(text_elements)
Normalize(elements) == Join(<<NL>>, TextElements(elements))

\* "NO_INVOICE_FOUND"
Sentinel == <<"N", "O", "_", "I", "N", "V", "O", "I", "C", "E", "_", "F", "O", "U", "N", "D">>

\* what llm.invoke does: it raises, or returns a message with this content
Raises == [raises |-> TRUE, content |-> <<>>]
Responds(c) == [raises |-> FALSE, content |-> c]

\* line 78 without the strip()
extract_invoice_data_NoStrip(llm) ==
    IF llm.raises THEN None
    ELSE IF llm.content = Sentinel THEN None ELSE Some(llm.content)

\* lines 76-81
extract_invoice_data(llm) ==
    IF llm.raises THEN None
    ELSE IF Strip(llm.content) = Sentinel THEN None ELSE Some(llm.content)

\* "--- Invoice from " and " ---" of line 177
HeaderOpen == <<"-", "-", "-", " ", "I", "n", "v", "o", "i", "c", "e", " ", "f", "r", "o", "m", " ">>
HeaderClose == <<" ", "-", "-", "-">>
Header(name) == HeaderOpen \o name \o HeaderClose

\* f"--- Invoice from {file.name} ---\n{invoice_data}" (line 177)
Entry(name, data) == Header(name) \o <<NL>> \o data

\* the number of "=" of line 187
rule_length == 50
Rule == Rep(<<"=">>, rule_length)

\* line 187: "\n\n" + "="*50 + "\n\n".join(extracted_invoices); the method
\* call binds tighter than +
Combine(entries) == <<NL, NL>> \o Rule \o Join(<<NL, NL>>, entries)

NumFiles == Len(uploaded_files)
\* the file the loop is at
File == uploaded_files[idx + 1]

\* for idx, file in enumerate(uploaded_files): extract_text_from_pdf(file)
\* creates the temporary file (lines 167-171, 15)
OpenTemp ==
    /\ mpc = "for"
    /\ idx < NumFiles
    /\ disk' = disk \cup {idx + 1}
    /\ mpc' = "write"
    /\ UNCHANGED <<uploaded_files, idx, pdf_text, invoice_data, extracted_invoices,
                   errors, combined_text, outcome>>
    /\ UNCHANGED pdfVars

\* tmp_file.write(pdf_file.getvalue()); tmp_file.flush() (lines 16-17), which
\* no try covers: an exception leaves extract_text_from_pdf and main, and the
\* file, made with delete=False, stays
WriteTemp ==
    /\ mpc = "write"
    /\ mpc' = IF File.write_raises THEN "crashed" ELSE "partition"
    /\ UNCHANGED <<uploaded_files, idx, disk, pdf_text, invoice_data, extracted_invoices,
                   errors, combined_text, outcome>>
    /\ UNCHANGED pdfVars

\* the try statement with its finally clause but no except clause
Partition_NoExcept ==
    /\ mpc = "partition"
    /\ IF File.parse_raises
       THEN /\ mpc' = "crashed"
            /\ UNCHANGED <<pdf_text, errors>>
       ELSE /\ pdf_text' = Normalize(File.elements)
            /\ mpc' = "text"
            /\ UNCHANGED errors
    /\ disk' = disk \ {idx + 1}
    /\ UNCHANGED <<uploaded_files, idx, invoice_data, extracted_invoices,
                   combined_text, outcome>>
    /\ UNCHANGED pdfVars

\* the try statement of lines 19-47: partition_pdf and the normalisation, or
\* the except clause; then the finally clause unlinks the file
Partition ==
    /\ mpc = "partition"
    /\ IF File.parse_raises
       THEN /\ errors' = Append(errors, [what |-> "Error processing PDF", file |-> idx + 1])
            /\ pdf_text' = <<>>
       ELSE /\ pdf_text' = Normalize(File.elements)
            /\ UNCHANGED errors
    /\ disk' = disk \ {idx + 1}
    /\ mpc' = "text"
    /\ UNCHANGED <<uploaded_files, idx, invoice_data, extracted_invoices,
                   combined_text, outcome>>
    /\ UNCHANGED pdfVars

\* `if text:` fails (line 173): on to the next file (line 179)
SkipEmpty ==
    /\ mpc = "text"
    /\ pdf_text = <<>>
    /\ idx' = idx + 1
    /\ mpc' = "for"
    /\ UNCHANGED <<uploaded_files, disk, pdf_text, invoice_data, extracted_invoices,
                   errors, combined_text, outcome>>
    /\ UNCHANGED pdfVars

\* invoice_data = extract_invoice_data(text, llm) (line 175)
Classify ==
    /\ mpc = "text"
    /\ pdf_text # <<>>
    /\ invoice_data' = extract_invoice_data(File.llm)
    /\ errors' = IF File.llm.raises
                 THEN Append(errors, [what |-> "LLM Processing Error", file |-> idx + 1])
                 ELSE errors
    /\ mpc' = "classified"
    /\ UNCHANGED <<uploaded_files, idx, disk, pdf_text, extracted_invoices,
                   combined_text, outcome>>
    /\ UNCHANGED pdfVars

\* if invoice_data: extracted_invoices.append(...) (lines 176-179)
Collect ==
    /\ mpc = "classified"
    /\ extracted_invoices' =
          IF Truthy(invoice_data)
          THEN Append(extracted_invoices, Entry(File.name, invoice_data.val))
          ELSE extracted_invoices
    /\ idx' = idx + 1
    /\ mpc' = "for"
    /\ UNCHANGED <<uploaded_files, disk, pdf_text, invoice_data, errors,
                   combined_text, outcome>>
    /\ UNCHANGED pdfVars

\* after the loop (lines 181-212)
Aggregate ==
    /\ mpc = "for"
    /\ NumFiles > 0
    /\ idx = NumFiles
    /\ IF extracted_invoices # <<>>
       THEN /\ combined_text' = Combine(extracted_invoices)
            /\ outcome' = "success"
       ELSE /\ outcome' = "nothing extracted"
            /\ UNCHANGED combined_text
    /\ mpc' = "done"
    /\ UNCHANGED <<uploaded_files, idx, disk, pdf_text, invoice_data,
                   extracted_invoices, errors>>
    /\ UNCHANGED pdfVars

\* `if uploaded_files:` fails (line 162): nothing is shown
NoFiles ==
    /\ mpc = "for"
    /\ NumFiles = 0
    /\ mpc' = "done"
    /\ UNCHANGED <<uploaded_files, idx, disk, pdf_text, invoice_data,
                   extracted_invoices, errors, combined_text, outcome>>
    /\ UNCHANGED pdfVars

---------------------------------------------------------------------------
(* The uploads main is run on.                                             *)

MaxFiles == 3
MaxElements == 2
MaxPad == 1

UploadedFile(name, w, p, els, llm) ==
    [name |-> name, write_raises |-> w, parse_raises |-> p, elements |-> els, llm |-> llm]

NameLetters == <<"a", "b", "c", "d", "e", "f">>
\* the name of the i-th upload: a.pdf, b.pdf, ...
FileName(i) == <<NameLetters[i], ".", "p", "d", "f">>

OneText == <<Element("Text", <<"x">>, <<>>)>>

\* a batch file: the write fails, the parser fails, the parser finds nothing,
\* or the parser finds a text and the model fails, answers the sentinel,
\* answers nothing or answers "X"
BatchFiles(i) ==
    {UploadedFile(FileName(i), TRUE, FALSE, <<>>, Raises),
     UploadedFile(FileName(i), FALSE, TRUE, <<>>, Raises),
     UploadedFile(FileName(i), FALSE, FALSE, <<>>, Raises)}
    \cup {UploadedFile(FileName(i), FALSE, FALSE, OneText, l) :
            l \in {Raises, Responds(Sentinel), Responds(<<>>), Responds(<<"X">>)}}

RECURSIVE Batches(_)
\* the batches of n files
Batches(n) ==
    IF n = 0 THEN {<<>>}
    ELSE {Append(b, f) : b \in Batches(n - 1), f \in BatchFiles(n)}

ElementChoices ==
    {Element(c, <<"a">>, <<>>) : c \in {"Text", "Title", "ListItem", "CheckBox"}}
    \cup {Element("Table", <<"t">>, rows) :
            rows \in {<<>>, <<<<<<"a">>>>>>, << <<<<"a">>, <<"b">>>>, <<<<"c">>>> >>}}

ElementSequences == UNION {[1..k -> ElementChoices] : k \in 0..MaxElements}

Pads == StringsUpTo({" ", NL, "x"}, MaxPad)
Cores == {Sentinel, <<>>, SubSeq(Sentinel, 1, Len(Sentinel) - 1), <<"X">>}
Responses == {a \o c \o b : a \in Pads, b \in Pads, c \in Cores}

MainStart(files) ==
    /\ uploaded_files = files
    /\ idx = 0
    /\ mpc = "for"
    /\ disk = {}
    /\ pdf_text = <<>>
    /\ invoice_data = None
    /\ extracted_invoices = <<>>
    /\ errors = <<>>
    /\ combined_text = <<>>
    /\ outcome = "none"

Init ==
    /\ PdfIdle
    /\ \/ \E n \in 0..MaxFiles : \E b \in Batches(n) : MainStart(b)
       \/ \E els \in ElementSequences :
             MainStart(<<UploadedFile(FileName(1), FALSE, FALSE, els, Responds(<<"X">>))>>)
       \/ \E r \in Responses :
             MainStart(<<UploadedFile(FileName(1), FALSE, FALSE, OneText, Responds(r))>>)

Next ==
    \/ OpenTemp
    \/ WriteTemp
    \/ Partition
    \/ SkipEmpty
    \/ Classify
    \/ Collect
    \/ Aggregate
    \/ NoFiles

Spec == Init /\ [][Next]_vars

---------------------------------------------------------------------------
(* Properties of create_pdf.                                               *)

Max(S) == CHOOSE m \in S : \A n \in S : n <= m

\* the geometries the spec's PageGeometry invariant allows, with a positive
\* usable width
GeometryOk == available_width > 0 /\ 2 * geom.margin < geom.ph /\ 2 * geom.margin < geom.pw

InUsableArea(d) ==
    /\ d.x = geom.margin
    /\ geom.margin <= d.y
    /\ d.y <= geom.ph - geom.margin
    /\ d.x + stringWidth(d.text) <= geom.pw - geom.margin

\* C1: every draw lies inside the usable area: x is the margin, y is between
\* the margins, and the right edge of the text is not beyond pageWidth - margin.
C1_DrawsInsideUsableArea ==
    GeometryOk => \A i \in 1..Len(draws) : InUsableArea(draws[i])

\* the page of each draw, in order
DrawPages == [i \in 1..Len(draws) |-> draws[i].page]

\* four lines to draw that each fit the usable width, on a page of height
\* margin + 3 * lineHeight
OverflowCase ==
    /\ GeometryOk
    /\ geom.ph = geom.margin + 3 * geom.lh
    /\ Len(AllLines) = 4
    /\ \A i \in 1..4 : AllLines[i] # <<>> /\ stringWidth(AllLines[i]) <= available_width

FittingBreaks(s) ==
    {k \in 0..(Len(s) - 1) : IsSpace(s[k + 1]) /\ stringWidth(SliceTo(s, k)) <= available_width}

\* C3: when the line is too wide and a whitespace exists before the
\* interpolated break index (index 0 included), the prefix drawn ends at a
\* whitespace, the one nearest to the width budget whose prefix still fits.
C3_BreaksAtNearestFittingWhitespace ==
    [][(/\ pc = "while"
        /\ Len(line) > 0
        /\ GeometryOk
        /\ stringWidth(line) > available_width
        /\ \E k \in 0..(Interpolated(line) - 1) : IsSpace(line[k + 1]))
       => /\ FittingBreaks(line) # {}
          /\ draws' = Append(draws, Draw(SliceTo(line, Max(FittingBreaks(line)))))]_vars

\* the draws of a text none of whose lines wraps, laid out on one page: the
\* i-th line, when not empty, is drawn i - 1 line heights below the top
NonEmptyLines == SelectSeq([i \in 1..Len(AllLines) |-> i], LAMBDA i : AllLines[i] # <<>>)
OnePageDraws ==
    [k \in 1..Len(NonEmptyLines) |->
        [page |-> 0, x |-> geom.margin,
         y |-> TopOfPage - (NonEmptyLines[k] - 1) * geom.lh,
         text |-> AllLines[NonEmptyLines[k]]]]

\* C9: the end of every input line, an empty one included, moves the cursor
\* down by exactly one line height and a wrap break by one more (or to the
\* top of the next page); so a text that neither wraps nor leaves page 0 has
\* its i-th line drawn i - 1 line heights below the first row.
C9_BlankLinePreservation ==
    /\ [][/\ (pc = "while" /\ line = <<>>)
             => (y' = y - geom.lh /\ page' = page /\ draws' = draws)
          /\ (pc = "while" /\ line # <<>> /\ stringWidth(line) > available_width)
             => \/ (y' = y - geom.lh /\ page' = page)
                \/ (y - geom.lh < geom.margin /\ y' = TopOfPage /\ page' = page + 1)
          /\ (pc = "while" /\ line # <<>> /\ stringWidth(line) <= available_width)
             => (y' = y /\ page' = page)]_vars
    /\ [](( /\ pc = "saved"
            /\ page = 0
            /\ \A i \in 1..Len(AllLines) : stringWidth(AllLines[i]) <= available_width)
          => draws = OnePageDraws)

C9_Witness ==
    /\ pc = "saved"
    /\ text = <<"x", NL, NL, "x">>
    /\ page = 0
    /\ Len(draws) = 2
    /\ draws[2].y = draws[1].y - 2 * geom.lh

\* one iteration of the wrap loop draws the whole line, or draws a non-empty
\* prefix and leaves a shorter line
LoopProgress ==
    \/ (line' = <<>> /\ draws' = Append(draws, Draw(line)))
    \/ /\ Len(draws') = Len(draws) + 1
       /\ draws'[Len(draws')].text # <<>>
       /\ Len(line') < Len(line)

---------------------------------------------------------------------------
(* Properties of main, extract_text_from_pdf and extract_invoice_data.     *)

\* the places (1-based) at which sub occurs in s
Occurrences(sub, s) ==
    {p \in 1..(Len(s) - Len(sub) + 1) : SubSeq(s, p, p + Len(sub) - 1) = sub}

\* the per-file result the aggregation is about: None when the parser fails
\* or finds no text, else what the classifier returns
ResultOf(f) ==
    IF f.parse_raises \/ Normalize(f.elements) = <<>> THEN None
    ELSE extract_invoice_data(f.llm)

\* the places at which a line of exactly 50 "=" starts in s
RuleLines(s) ==
    {p \in Occurrences(Rule, s) :
        /\ (p = 1 \/ s[p - 1] = NL)
        /\ (p + rule_length > Len(s) \/ s[p + rule_length] = NL)}

\* C4: the combined text has one header per Some result (Some("") included)
\* and none for a None result, in input order, with a line of 50 "=" between
\* two consecutive kept results; with no Some result there is no combined
\* text and the run reports "nothing extracted".
C4_Aggregation ==
    (mpc = "done" /\ NumFiles > 0) =>
        LET kept == SelectSeq(uploaded_files, LAMBDA f : ResultOf(f).some)
            At(f) == Occurrences(Header(f.name), combined_text)
        IN  IF kept = <<>>
            THEN combined_text = <<>> /\ outcome = "nothing extracted"
            ELSE /\ outcome = "success"
                 /\ \A i \in 1..NumFiles :
                       Cardinality(At(uploaded_files[i])) =
                          IF ResultOf(uploaded_files[i]).some THEN 1 ELSE 0
                 /\ \A i \in 1..(Len(kept) - 1) :
                       \E a \in At(kept[i]), b \in At(kept[i + 1]) :
                          \E r \in RuleLines(combined_text) : a < r /\ r < b

\* s is the sentinel with nothing but whitespace before and after it
PaddedSentinel(s) ==
    \E a \in 0..Len(s) :
        /\ a + Len(Sentinel) <= Len(s)
        /\ SubSeq(s, a + 1, a + Len(Sentinel)) = Sentinel
        /\ \A i \in 1..Len(s) : (i <= a \/ i > a + Len(Sentinel)) => IsSpace(s[i])

\* C5 as stated: the classifier returns None exactly when the response is
\* the sentinel, and Some(response) for every other response.
C5_SentinelExact ==
    (mpc = "classified" /\ ~File.llm.raises) =>
        invoice_data = IF File.llm.content = Sentinel THEN None ELSE Some(File.llm.content)

\* C5 as amended: the classifier returns None exactly when the response is
\* the sentinel between leading and trailing whitespace (none included), and
\* Some(response), the response unchanged, for every other response.
C5_SentinelStripped ==
    (mpc = "classified" /\ ~File.llm.raises) =>
        invoice_data = IF PaddedSentinel(File.llm.content) THEN None
                       ELSE Some(File.llm.content)

C5_Witness ==
    /\ mpc = "classified"
    /\ ~File.llm.raises
    /\ File.llm.content # Sentinel
    /\ PaddedSentinel(File.llm.content)
    /\ invoice_data = None

\* the lines of a newline-joined text, none for the empty text
OutputLines(s) == IF s = <<>> THEN <<>> ELSE Split(s)

\* the lines the normalizer's rules give one element
RuleLinesOf(e) ==
    CASE e.cls \in {"Text", "Title"} -> <<e.text>>
      [] e.cls = "ListItem" -> <<BulletMarker \o <<" ">> \o e.text>>
      [] e.cls = "Table" ->
            [r \in 1..Len(e.dimensions) |-> Join(<<" ", "|", " ">>, e.dimensions[r])]
      [] OTHER -> <<>>

RECURSIVE ExpectedLines(_)
ExpectedLines(elements) ==
    IF elements = <<>> THEN <<>>
    ELSE RuleLinesOf(Head(elements)) \o ExpectedLines(Tail(elements))

\* C6: the normalized text has, in element order, one line per Text or Title
\* (unchanged), one per ListItem (marker, space, text), one per row of a
\* Table (cells joined by " | ") and none for any other element.
C6_NormalizedLines ==
    (mpc = "text" /\ ~File.parse_raises) =>
        OutputLines(pdf_text) = ExpectedLines(File.elements)

\* what a file adds to extracted_invoices, from that file alone
ContributionOf(f) ==
    IF /\ ~f.parse_raises
       /\ Normalize(f.elements) # <<>>
       /\ ~f.llm.raises
       /\ Truthy(extract_invoice_data(f.llm))
    THEN <<Entry(f.name, f.llm.content)>>
    ELSE <<>>

RECURSIVE Contributions(_)
Contributions(files) ==
    IF files = <<>> THEN <<>>
    ELSE ContributionOf(Head(files)) \o Contributions(Tail(files))

\* C7: a parser or classifier failure never ends the run; the files are
\* handled one after the other; what the loop has collected is, in upload
\* order, the contribution of each finished file, decided by that file alone;
\* the loop ends only after the last file, and the combined text holds the
\* contributions in upload order.
C7_ErrorIsolation ==
    /\ mpc = "crashed" => (File.write_raises /\ ~File.parse_raises)
    /\ mpc \in {"for", "done"} =>
          extracted_invoices = Contributions(SubSeq(uploaded_files, 1, idx))
    /\ mpc = "done" => idx = NumFiles
    /\ \A i \in 1..Len(errors) :
          /\ errors[i].file <= Min(idx + 1, NumFiles)
          /\ \A j \in 1..(i - 1) : errors[j].file < errors[i].file
    /\ (mpc = "done" /\ outcome = "success") =>
          \A i \in 1..Len(extracted_invoices) :
             /\ Occurrences(extracted_invoices[i], combined_text) # {}
             /\ \A j \in 1..(i - 1) :
                   \A a \in Occurrences(extracted_invoices[j], combined_text),
                      b \in Occurrences(extracted_invoices[i], combined_text) : a < b

\* a parser failure and a classifier failure, each followed by a file that
\* contributes
C7_Witness ==
    /\ mpc = "done"
    /\ NumFiles = 3
    /\ uploaded_files[1].parse_raises
    /\ ~uploaded_files[2].parse_raises /\ uploaded_files[2].elements # <<>>
    /\ uploaded_files[2].llm.raises
    /\ extracted_invoices = <<Entry(FileName(3), <<"X">>)>>
    /\ Len(errors) = 2
    /\ outcome = "success"

\* C8: outside extract_text_from_pdf (whether it returned or raised) no
\* temporary copy of an uploaded file exists.
C8_TempFileRemoved ==
    mpc \notin {"write", "partition"} => disk = {}

=============================================================================
